---- MODULE Spec2Model ----
(***************************************************************************)
(* State-machine model of the TextSecure cipher of INTERLOCK               *)
(* (src/src/textsecure.go): the activation sequence of textSecure.Activate,*)
(* the outbound request handlers sendMessage and downloadHistory, the      *)
(* inbound messageHandler, and the per-contact history files they share.   *)
(*                                                                         *)
(* The specifications share the variables; each leaves the others idle:     *)
(*   SpecActivate      one call of Activate and the listener it spawns      *)
(*   SpecActivateFair  the same, with the scheduler's fairness              *)
(*   SpecTail          one history request, with an append beside it        *)
(*   SpecReread        two history requests for one contact                 *)
(*   SpecRelay         concurrent send requests and the inbound handler     *)
(*   SpecInbound       the inbound handler alone, over every message shape  *)
(*   SpecStore         a send request, an inbound message, history requests *)
(*   SpecNotify        the listener's messages in a row, with their timers  *)
(*   SpecNotifyFair    the same, with the scheduler's fairness              *)
(*   SpecResolve       parseContact and getContact on every input in bounds *)
(* The timers of the notifications run beside the handler wherever inbound  *)
(* messages are handled.                                                    *)
(* Spec is SpecActivate.                                                    *)
(***************************************************************************)
EXTENDS Integers, Sequences, FiniteSets, TLC

(***************************************************************************)
(* Activation state (textSecure.Activate, lines 77-178)                     *)
(***************************************************************************)
VARIABLES
    actPc,       \* position of Activate: see the Act* actions
    postAuth,    \* argument of Activate
    register,    \* the -r flag (line 35, 53)
    testMode,    \* conf.testMode
    volume,      \* the encrypted volume: "locked" | "unlocked"
    storageDir,  \* storagePath() exists
    sentinel,    \* the last resort prekey file exists
    numberFile,  \* content of numberPath(), or NoFile
    tNumber,     \* t.number
    err,         \* the named result err of Activate, shared with the listener closure
    retVal,      \* what Activate returned to its caller, or NoReturn
    listener,    \* the listener goroutine: "notstarted" | "spawned" | "listening" | "failed" | "stopped"
    exitMsg,     \* why the process terminated, or "none"
    actLog       \* what this run has done so far (a record of flags)

actVars == <<actPc, postAuth, register, testMode, volume, storageDir, sentinel,
             numberFile, tNumber, err, retVal, listener, exitMsg, actLog>>

(***************************************************************************)
(* History request state (downloadHistory, lines 275-343)                   *)
(***************************************************************************)
VARIABLES
    tailPc,      \* "idle" | "ready" | "open" | "opened" | "done" | "reopen" |
                 \* "reopened" | "again"
    tailStat,    \* the size Stat returned to the request that has the file open
    tailFile,    \* content of the contact's history file: a sequence of bytes
    tailResp,    \* the response of the request, or NoResponse
    tailFd       \* the descriptor the last request opened: open or closed, and its
                 \* position in the file

tailVars == <<tailPc, tailStat, tailFile, tailResp, tailFd>>

\* No descriptor yet.
NoFd == [open |-> FALSE, pos |-> 0]

(***************************************************************************)
(* Message relay state (sendMessage, messageHandler, updateHistory)         *)
(***************************************************************************)
VARIABLES
    historyFiles,   \* the history files that exist: path -> content (a sequence of bytes)
    sender,         \* the send requests being handled: one record per request handler,
                    \* with the calls of textsecure.SendMessage / SendAttachment it made
    inbound,        \* the listener goroutine inside messageHandler
    saved,          \* the attachment files created by saveAttachment so far
    reported,       \* the number of status.Error calls so far
    appendLog,      \* the writes to history files so far, in the order they happened
    initialFiles    \* the history files as they were before any request

relayVars == <<historyFiles, sender, inbound, saved, reported,
               appendLog, initialFiles>>

(***************************************************************************)
(* History requests handled next to the relay (downloadHistory, 275-343)    *)
(***************************************************************************)
VARIABLES
    reader       \* the handler of history requests: the requests it has answered so
                 \* far and the last of its responses

readerVars == <<reader>>

(***************************************************************************)
(* Contact resolution on its own (parseContact, getContact)                 *)
(***************************************************************************)
VARIABLES
    resolve      \* one resolution: what is asked, the contact files there are, and
                 \* the record or error returned

resolveVars == <<resolve>>

(***************************************************************************)
(* A second history request for the same contact (downloadHistory, 275-343) *)
(***************************************************************************)
VARIABLES
    tailAgain,     \* the response of the second request, or NoResponse
    tailAppended   \* was the file appended to since the first request opened it

rereadVars == <<tailAgain, tailAppended>>

(***************************************************************************)
(* Notifications of inbound messages (messageHandler, lines 365-369)        *)
(***************************************************************************)
VARIABLES
    timers,         \* the goroutines of lines 365-369, one per message, in the order
                    \* of the messages: where each is and the notification it raised
    notifications,  \* the notifications the status shows
    notifySeq       \* the notifications raised so far

notifyVars == <<timers, notifications, notifySeq>>

vars == <<actVars, tailVars, relayVars, readerVars, resolveVars, rereadVars, notifyVars>>

NoResponse == [status |-> "none", response |-> <<>>]

\* The idle value of the history request state in the specifications without it.
TailIdle ==
    /\ tailPc = "idle"
    /\ tailStat = 0
    /\ tailFile = <<>>
    /\ tailResp = NoResponse
    /\ tailFd = NoFd

\* No message has arrived: no timer, no notification.
NotifyIdle == timers = <<>> /\ notifications = {} /\ notifySeq = 0

\* The idle value of the relay state in the specifications without it.
RelayIdle ==
    /\ NotifyIdle
    /\ historyFiles = <<>>
    /\ sender = <<>>
    /\ inbound = [pc |-> "off"]
    /\ saved = <<>>
    /\ reported = 0
    /\ appendLog = <<>>
    /\ initialFiles = <<>>

\* The idle value of the handler of history requests in the specifications without it.
ReaderIdle == reader = [pc |-> "off"]

\* The idle value of the contact resolution in the specifications without it.
ResolveIdle == resolve = [pc |-> "off"]

\* The idle value of the second history request in the specifications without it.
RereadIdle == tailAgain = NoResponse /\ tailAppended = FALSE

\* The parts that are idle next to the activation, the tail read and the relay.
OthersIdle == ReaderIdle /\ ResolveIdle /\ RereadIdle

notAct == <<tailVars, relayVars, readerVars, resolveVars, rereadVars, notifyVars>>
notTail == <<actVars, relayVars, readerVars, resolveVars, rereadVars, notifyVars>>
notInbound == <<actVars, tailVars, readerVars, resolveVars, rereadVars>>
notRelay == <<notInbound, notifyVars>>
notReader == <<actVars, tailVars, relayVars, resolveVars, rereadVars, notifyVars>>
notResolve == <<actVars, tailVars, relayVars, readerVars, rereadVars, notifyVars>>
notReread == <<actVars, relayVars, readerVars, resolveVars, notifyVars>>
notNotify == <<actVars, tailVars, relayVars, readerVars, resolveVars, rereadVars>>

NoFile == "<absent>"
NoReturn == [c |-> "none", err |-> "none"]

\* Numbers the operator may type at the prompt of line 105 (any text is accepted).
Numbers == {"+15550001", "garbage"}

NumberFiles == {NoFile} \cup Numbers

InitLog == [number0 |-> NoFile, sentinel0 |-> TRUE, checked |-> "none", prompted |-> FALSE,
            setupCalled |-> FALSE, setupOk |-> FALSE, numberRead |-> FALSE,
            locked |-> FALSE]

\* The idle value of the activation state in the specifications that do not run it.
ActIdle ==
    /\ actPc = "idle"
    /\ postAuth = TRUE
    /\ register = FALSE
    /\ testMode = TRUE
    /\ volume = "unlocked"
    /\ storageDir = TRUE
    /\ sentinel = TRUE
    /\ numberFile = NoFile
    /\ tNumber = ""
    /\ err = "nil"
    /\ retVal = NoReturn
    /\ listener = "notstarted"
    /\ exitMsg = "none"
    /\ actLog = InitLog

\* The state in which Activate is called: any flags, any persisted registration state.
\* Before authentication the volume is locked; the post-authentication call runs with
\* the volume unlocked by the login.
ActInit ==
    /\ actPc = "start"
    /\ postAuth \in BOOLEAN
    /\ register \in BOOLEAN
    /\ testMode \in BOOLEAN
    /\ volume = IF postAuth THEN "unlocked" ELSE "locked"
    /\ storageDir \in BOOLEAN
    /\ sentinel \in BOOLEAN
    /\ numberFile \in NumberFiles
    /\ (~storageDir => (~sentinel /\ numberFile = NoFile))
    /\ tNumber = ""
    /\ err = "nil"
    /\ retVal = NoReturn
    /\ listener = "notstarted"
    /\ exitMsg = "none"
    /\ actLog = [InitLog EXCEPT !.number0 = numberFile, !.sentinel0 = sentinel]

\* log.Fatal, log.Fatalf and os.Exit end the process, the listener goroutine included.
Exited == exitMsg # "none"

\* luksUnmount(); luksClose()
LockVolume == "locked"

\* Line 154 with the test of postAuth inverted.
RegistrationExitInverted(pa, reg) == pa /\ reg

\* Line 154: the condition under which a successful setup ends the process.
RegistrationExit(pa, reg) == ~pa /\ reg

\* The check of needsRegistration inverted.
needsRegistrationInverted == sentinel

\* needsRegistration (lines 491-502): Stat of the last resort key fails.
needsRegistration == ~sentinel

\* Lines 78-90: the pre-authentication call does nothing unless -r was given.
ActStart ==
    /\ actPc = "start" /\ ~Exited
    /\ UNCHANGED notAct
    /\ IF ~postAuth
         THEN IF ~register
                THEN /\ retVal' = [c |-> "t", err |-> "nil"]
                     /\ actPc' = "returned"
                ELSE /\ actPc' = "authenticate"
                     /\ UNCHANGED retVal
         ELSE /\ actPc' = "mkdir"
              /\ UNCHANGED retVal
    /\ UNCHANGED <<postAuth, register, testMode, volume, storageDir, sentinel,
                   numberFile, tNumber, err, listener, exitMsg, actLog>>

\* Lines 92-102: unlock the volume; on failure lock it again and terminate.
ActAuthenticate ==
    /\ actPc = "authenticate" /\ ~Exited
    /\ UNCHANGED notAct
    /\ IF testMode
         THEN /\ actPc' = "regcheck"
              /\ UNCHANGED <<volume, exitMsg, actLog>>
         ELSE \E ok \in BOOLEAN :
                IF ok
                  THEN /\ volume' = "unlocked"
                       /\ actPc' = "regcheck"
                       /\ UNCHANGED <<exitMsg, actLog>>
                  ELSE /\ volume' = LockVolume
                       /\ actLog' = [actLog EXCEPT !.locked = TRUE]
                       /\ exitMsg' = "AuthenticationFailed"
                       /\ actPc' = "exited"
    /\ UNCHANGED <<postAuth, register, testMode, storageDir, sentinel,
                   numberFile, tNumber, err, retVal, listener>>

\* Lines 104, 114-123: with the sentinel present the registration is refused.
ActCheckRegistration ==
    /\ actPc = "regcheck" /\ ~Exited
    /\ UNCHANGED notAct
    /\ IF needsRegistration
         THEN /\ actPc' = "savenumber"
              /\ actLog' = [actLog EXCEPT !.checked = "needed"]
              /\ UNCHANGED <<volume, exitMsg>>
         ELSE /\ volume' = IF ~testMode THEN LockVolume ELSE volume
              /\ actLog' = [actLog EXCEPT !.checked = "present",
                                          !.locked = ~testMode]
              /\ exitMsg' = "AlreadyRegistered"
              /\ actPc' = "exited"
    /\ UNCHANGED <<postAuth, register, testMode, storageDir, sentinel,
                   numberFile, tNumber, err, retVal, listener>>

\* Lines 105-113: prompt for the number and write it to numberPath(), truncating.
\* OpenFile fails when the storage directory is missing (it is created only at line
\* 126) and may fail otherwise; the result of Write is not looked at.
ActSaveNumber ==
    /\ actPc = "savenumber" /\ ~Exited
    /\ UNCHANGED notAct
    /\ \E number \in Numbers, openOk \in BOOLEAN, writeOk \in BOOLEAN :
         IF openOk /\ storageDir
           THEN /\ numberFile' = IF writeOk THEN number ELSE ""
                /\ actPc' = "mkdir"
                /\ UNCHANGED exitMsg
           ELSE /\ exitMsg' = "SaveNumberFailed"
                /\ actPc' = "exited"
                /\ UNCHANGED numberFile
    /\ actLog' = [actLog EXCEPT !.prompted = TRUE]
    /\ UNCHANGED <<postAuth, register, testMode, volume, storageDir, sentinel,
                   tNumber, err, retVal, listener>>

\* Lines 126-130: os.MkdirAll(storagePath()).
ActMkdirAll ==
    /\ actPc = "mkdir" /\ ~Exited
    /\ UNCHANGED notAct
    /\ \E ok \in BOOLEAN :
         IF ok \/ storageDir
           THEN /\ storageDir' = TRUE
                /\ actPc' = "readnumber"
                /\ UNCHANGED exitMsg
           ELSE /\ exitMsg' = "MkdirFailed"
                /\ actPc' = "exited"
                /\ UNCHANGED storageDir
    /\ UNCHANGED <<postAuth, register, testMode, volume, sentinel, numberFile,
                   tNumber, err, retVal, listener, actLog>>

\* registeredNumber returning no error for a number file that cannot be opened.
registeredNumberNoError == IF numberFile = NoFile
                             THEN [number |-> "", err |-> "nil"]
                             ELSE [number |-> numberFile, err |-> "nil"]

\* registeredNumber (lines 504-521): the content of the number file, or an error.
registeredNumber == IF numberFile = NoFile
                      THEN [number |-> "", err |-> "ENOENT"]
                      ELSE [number |-> numberFile, err |-> "nil"]

\* Lines 132-137.
ActRegisteredNumber ==
    /\ actPc = "readnumber" /\ ~Exited
    /\ UNCHANGED notAct
    /\ LET r == registeredNumber IN
         /\ tNumber' = r.number
         /\ IF r.err # "nil"
              THEN /\ err' = "NotRegistered"
                   /\ retVal' = [c |-> "nil", err |-> "NotRegistered"]
                   /\ actPc' = "returned"
                   /\ UNCHANGED actLog
              ELSE /\ err' = "nil"
                   /\ actPc' = "setup"
                   /\ actLog' = [actLog EXCEPT !.numberRead = TRUE]
                   /\ UNCHANGED retVal
    /\ UNCHANGED <<postAuth, register, testMode, volume, storageDir, sentinel,
                   numberFile, listener, exitMsg>>

\* Lines 139-152: textsecure.Setup. A successful setup has provisioned the keys, the
\* last resort key among them.
ActSetup ==
    /\ actPc = "setup" /\ ~Exited
    /\ UNCHANGED notAct
    /\ \E ok \in BOOLEAN :
         IF ok
           THEN /\ err' = "nil"
                /\ sentinel' = TRUE
                /\ actPc' = "postsetup"
                /\ actLog' = [actLog EXCEPT !.setupCalled = TRUE, !.setupOk = TRUE]
                /\ UNCHANGED retVal
           ELSE /\ err' = "SetupFailed"
                /\ retVal' = [c |-> "nil", err |-> "SetupFailed"]
                /\ actPc' = "returned"
                /\ actLog' = [actLog EXCEPT !.setupCalled = TRUE]
                /\ UNCHANGED sentinel
    /\ UNCHANGED <<postAuth, register, testMode, volume, storageDir, numberFile,
                   tNumber, listener, exitMsg>>

\* Lines 154-163: a registration run locks the volume and exits.
ActRegistrationDone ==
    /\ actPc = "postsetup" /\ ~Exited
    /\ UNCHANGED notAct
    /\ RegistrationExit(postAuth, register)
    /\ volume' = IF ~testMode THEN LockVolume ELSE volume
    /\ actLog' = [actLog EXCEPT !.locked = ~testMode]
    /\ exitMsg' = "Exit0"
    /\ actPc' = "exited"
    /\ UNCHANGED <<postAuth, register, testMode, storageDir, sentinel, numberFile,
                   tNumber, err, retVal, listener>>

\* Lines 165-175: the go statement.
ActSpawnListener ==
    /\ actPc = "postsetup" /\ ~Exited
    /\ UNCHANGED notAct
    /\ ~RegistrationExit(postAuth, register)
    /\ listener' = "spawned"
    /\ actPc' = "return"
    /\ UNCHANGED <<postAuth, register, testMode, volume, storageDir, sentinel,
                   numberFile, tNumber, err, retVal, exitMsg, actLog>>

\* What line 177 hands to the caller: t and the value of err at that moment.
ReturnedErr(e) == e

\* Line 177: return t, err.
ActReturn ==
    /\ actPc = "return" /\ ~Exited
    /\ UNCHANGED notAct
    /\ retVal' = [c |-> "t", err |-> ReturnedErr(err)]
    /\ actPc' = "returned"
    /\ UNCHANGED <<postAuth, register, testMode, volume, storageDir, sentinel,
                   numberFile, tNumber, err, listener, exitMsg, actLog>>

\* Line 170, first half: the goroutine calls textsecure.ListenForMessages.
ListenerStart ==
    /\ listener = "spawned" /\ ~Exited
    /\ UNCHANGED notAct
    /\ listener' = "listening"
    /\ UNCHANGED <<actPc, postAuth, register, testMode, volume, storageDir, sentinel,
                   numberFile, tNumber, err, retVal, exitMsg, actLog>>

\* Lines 170-174: ListenForMessages returns; its result is assigned to the err of
\* Activate, which the closure captured, and a failure is logged.
ListenerReturn ==
    /\ listener = "listening" /\ ~Exited
    /\ UNCHANGED notAct
    /\ \E e \in {"nil", "ListenFailed"} :
         /\ err' = e
         /\ listener' = IF e # "nil" THEN "failed" ELSE "stopped"
    /\ UNCHANGED <<actPc, postAuth, register, testMode, volume, storageDir, sentinel,
                   numberFile, tNumber, retVal, exitMsg, actLog>>

ActivateNext ==
    \/ ActStart
    \/ ActAuthenticate
    \/ ActCheckRegistration
    \/ ActSaveNumber
    \/ ActMkdirAll
    \/ ActRegisteredNumber
    \/ ActSetup
    \/ ActRegistrationDone
    \/ ActSpawnListener
    \/ ActReturn
    \/ ListenerStart
    \/ ListenerReturn

InitActivate == ActInit /\ TailIdle /\ RelayIdle /\ OthersIdle

SpecActivate == InitActivate /\ [][ActivateNext]_vars

\* The steps that wait for nobody are taken: the code of Activate between the
\* prompts and the calls of the network runs on, and the goroutine of the listener
\* is scheduled. Nothing is assumed of the steps that wait for the operator (the
\* prompts of lines 84-105, of the password and of the verification code), for the
\* server (Setup) or for the end of the connection (the return of
\* ListenForMessages, which may never come).
SpecActivateFair ==
    /\ InitActivate /\ [][ActivateNext]_vars
    /\ WF_vars(ActCheckRegistration \/ ActMkdirAll \/ ActRegisteredNumber
               \/ ActRegistrationDone \/ ActSpawnListener \/ ActReturn)
    /\ WF_vars(ListenerStart)


(***************************************************************************)
(* The bounded tail read of downloadHistory                                 *)
(***************************************************************************)
historySize == 10 * 1024

LF == "\n"
ErrorResponse == [status |-> "KO", response |-> <<>>]

\* Longest run of bytes put before and after the filler of a history file.
MaxEdge == 2

\* Sequences over S of length at most n.
SeqUpTo(S, n) == UNION {[1..k -> S] : k \in 0..n}

(* The content of a file is a string of bytes, written run-length encoded: a     *)
(* sequence of runs <<b, n>>, n >= 1 times the byte b, neighbouring runs holding *)
(* different bytes. <<<<"x", 3>>, <<LF, 1>>>> is the four bytes x x x LF.        *)
BRep(b, n) == IF n = 0 THEN <<>> ELSE <<<<b, n>>>>

\* The number of bytes of c.
RECURSIVE BLen(_)
BLen(c) == IF c = <<>> THEN 0 ELSE Head(c)[2] + BLen(Tail(c))

\* c followed by d.
BCat(c, d) ==
    IF c = <<>> THEN d
    ELSE IF d = <<>> THEN c
    ELSE IF c[Len(c)][1] = d[1][1]
           THEN SubSeq(c, 1, Len(c) - 1)
                  \o <<<<d[1][1], c[Len(c)][2] + d[1][2]>>>>
                  \o Tail(d)
           ELSE c \o d

\* The encoding of a sequence of bytes.
RECURSIVE FromBytes(_)
FromBytes(s) == IF s = <<>> THEN <<>>
                ELSE BCat(BRep(Head(s), 1), FromBytes(Tail(s)))

\* c[k:]: c without its first k bytes (0 <= k <= BLen(c)).
RECURSIVE BDrop(_, _)
BDrop(c, k) ==
    IF k = 0 \/ c = <<>> THEN c
    ELSE IF Head(c)[2] <= k THEN BDrop(Tail(c), k - Head(c)[2])
    ELSE <<<<Head(c)[1], Head(c)[2] - k>>>> \o Tail(c)

\* The byte of c at offset i (from 0).
RECURSIVE BAt(_, _)
BAt(c, i) == IF i < Head(c)[2] THEN Head(c)[1] ELSE BAt(Tail(c), i - Head(c)[2])

\* bytes.IndexByte: the offset (from 0) of the first b in c, or -1.
RECURSIVE IndexByte(_, _)
IndexByte(c, b) ==
    IF c = <<>> THEN -1
    ELSE IF Head(c)[1] = b THEN 0
    ELSE LET r == IndexByte(Tail(c), b)
         IN  IF r < 0 THEN -1 ELSE Head(c)[2] + r

\* History files around the bound: between historySize - MaxEdge and
\* historySize + MaxEdge bytes, with line feeds in any of the edge positions.
TailFiles == {BCat(BCat(FromBytes(pre), BRep("x", historySize - MaxEdge)), FromBytes(suf)) :
                  pre \in SeqUpTo({"x", LF}, MaxEdge),
                  suf \in SeqUpTo({"x", LF}, MaxEdge)}

\* os.Open handing out the descriptor of the request before, where that request
\* left it.
osOpenShared(last, content) ==
    [fd |-> [open |-> TRUE, pos |-> last.pos], content |-> content]

\* Line 300, os.Open: a descriptor of its own for each request, read-only and
\* positioned at the start of the file, whatever the descriptor of the request
\* before (last) was; the file is neither created nor emptied.
osOpen(last, content) ==
    [fd |-> [open |-> TRUE, pos |-> 0], content |-> content]

\* Line 316, Seek(offset, 0): the position is offset bytes from the start.
Seek(fd, offset) == [fd EXCEPT !.pos = offset]

\* Line 323, ioutil.ReadAll: the bytes from the position of the descriptor to the
\* end of the file, where the descriptor then is.
ReadAll(fd, content) ==
    [data |-> BDrop(content, fd.pos),
     fd |-> [fd EXCEPT !.pos = IF @ > BLen(content) THEN @ ELSE BLen(content)]]

\* Line 305, the deferred Close.
Close(fd) == [fd EXCEPT !.open = FALSE]

\* Lines 313-339: what a history request returns when Stat gave this size and the
\* file has this content when it is read: Seek to size - historySize when the size
\* is larger than historySize, ReadAll to the end of the file as it is by then, and
\* history[trimOffset:] with trimOffset the index of the first line feed read, or 0
\* when there is none or the size was not larger than historySize.
readTail(fd, size, content) ==
    LET sought == IF size > historySize THEN Seek(fd, size - historySize) ELSE fd
        read == ReadAll(sought, content)
        history == read.data
        found == IndexByte(history, LF)
        trimOffset == IF size > historySize
                        THEN (IF found < 0 THEN 0 ELSE found)
                        ELSE 0
    IN  [response |-> BDrop(history, trimOffset), fd |-> read.fd]

TailInit ==
    /\ tailPc = "ready"
    /\ tailStat = 0
    /\ tailFile \in TailFiles
    /\ tailResp = NoResponse
    /\ tailFd = NoFd

\* Line 307, Stat: the size of the file as it is when Stat is called.
Stat(content) == BLen(content)

\* Lines 300-305 on a request that named a valid contact path: os.Open, which may
\* fail, and then the request ends with an error response.
DownloadOpen ==
    /\ tailPc = "ready"
    /\ \E ioOk \in BOOLEAN :
         IF ioOk
           THEN LET o == osOpen(tailFd, tailFile) IN
                /\ tailPc' = "open"
                /\ tailFd' = o.fd
                /\ tailFile' = o.content
                /\ UNCHANGED tailResp
           ELSE /\ tailPc' = "done"
                /\ tailResp' = ErrorResponse
                /\ UNCHANGED <<tailFile, tailFd>>
    /\ UNCHANGED tailStat
    /\ UNCHANGED notTail

\* Lines 307-311: Stat on the file as it is now; when it fails the request ends
\* with an error response and the deferred Close.
DownloadStat ==
    /\ tailPc = "open"
    /\ \E ioOk \in BOOLEAN :
         IF ioOk
           THEN /\ tailPc' = "opened"
                /\ tailStat' = Stat(tailFile)
                /\ UNCHANGED <<tailResp, tailFd>>
           ELSE /\ tailPc' = "done"
                /\ tailResp' = ErrorResponse
                /\ tailFd' = Close(tailFd)
                /\ UNCHANGED tailStat
    /\ UNCHANGED tailFile
    /\ UNCHANGED notTail

\* Lines 313-343: Seek and ReadAll, each of which may fail, on the file as it is
\* now, the response, and the deferred Close.
DownloadRead ==
    /\ tailPc = "opened"
    /\ \E ioOk \in BOOLEAN :
         LET r == readTail(tailFd, tailStat, tailFile) IN
         IF ioOk
           THEN /\ tailResp' = [status |-> "OK", response |-> r.response]
                /\ tailFd' = Close(r.fd)
           ELSE /\ tailResp' = ErrorResponse
                /\ tailFd' = Close(tailFd)
    /\ tailPc' = "done"
    /\ UNCHANGED <<tailStat, tailFile>>
    /\ UNCHANGED notTail

\* The line an append adds between two history requests (updateHistory, line 484).
AppendedLine == BCat(BRep("y", 1), BRep(LF, 1))

\* updateHistory of another goroutine (lines 476-486), at any time from the Open of
\* the first request on: inside a request, between Open and Stat or between Stat
\* and ReadAll, or between two requests.
TailAppend ==
    /\ tailPc \in {"open", "opened", "done", "reopen", "reopened"}
    /\ ~tailAppended
    /\ tailFile' = BCat(tailFile, AppendedLine)
    /\ tailAppended' = TRUE
    /\ UNCHANGED <<tailPc, tailStat, tailResp, tailFd, tailAgain>>
    /\ UNCHANGED notReread

TailNext == DownloadOpen \/ DownloadStat \/ DownloadRead \/ TailAppend

InitTail == ActIdle /\ TailInit /\ RelayIdle /\ OthersIdle

\* One history request, and an append to the file by another goroutine.
SpecTail == InitTail /\ [][TailNext]_vars

\* Lines 300-305 once more, for the same contact.
DownloadOpenAgain ==
    /\ tailPc = "done"
    /\ \E ioOk \in BOOLEAN :
         IF ioOk
           THEN LET o == osOpen(tailFd, tailFile) IN
                /\ tailPc' = "reopen"
                /\ tailFd' = o.fd
                /\ tailFile' = o.content
                /\ UNCHANGED tailAgain
           ELSE /\ tailPc' = "again"
                /\ tailAgain' = ErrorResponse
                /\ UNCHANGED <<tailFile, tailFd>>
    /\ UNCHANGED <<tailStat, tailResp, tailAppended>>
    /\ UNCHANGED notReread

\* Lines 307-311 once more.
DownloadStatAgain ==
    /\ tailPc = "reopen"
    /\ \E ioOk \in BOOLEAN :
         IF ioOk
           THEN /\ tailPc' = "reopened"
                /\ tailStat' = Stat(tailFile)
                /\ UNCHANGED <<tailAgain, tailFd>>
           ELSE /\ tailPc' = "again"
                /\ tailAgain' = ErrorResponse
                /\ tailFd' = Close(tailFd)
                /\ UNCHANGED tailStat
    /\ UNCHANGED <<tailFile, tailResp, tailAppended>>
    /\ UNCHANGED notReread

\* Lines 313-343 once more.
DownloadReadAgain ==
    /\ tailPc = "reopened"
    /\ \E ioOk \in BOOLEAN :
         LET r == readTail(tailFd, tailStat, tailFile) IN
         IF ioOk
           THEN /\ tailAgain' = [status |-> "OK", response |-> r.response]
                /\ tailFd' = Close(r.fd)
           ELSE /\ tailAgain' = ErrorResponse
                /\ tailFd' = Close(tailFd)
    /\ tailPc' = "again"
    /\ UNCHANGED <<tailStat, tailFile, tailResp, tailAppended>>
    /\ UNCHANGED notReread

RereadNext ==
    \/ DownloadOpen
    \/ DownloadStat
    \/ DownloadRead
    \/ TailAppend
    \/ DownloadOpenAgain
    \/ DownloadStatAgain
    \/ DownloadReadAgain

InitReread == ActIdle /\ TailInit /\ RelayIdle /\ OthersIdle

\* Two history requests for one contact, with an append in between or without.
SpecReread == InitReread /\ [][RereadNext]_vars

(***************************************************************************)
(* Paths and contacts                                                       *)
(*                                                                         *)
(* A path is a sequence of segments and a segment is a sequence of tokens:  *)
(* a directory name is one token, a contact file name is spelled character  *)
(* by character and ends with the token of its extension.                   *)
(***************************************************************************)
Seg(name) == <<name>>
Up == Seg("..")

\* Line 30, with the dot that precedes it in file names (lines 418, 455, 465).
contactExt == ".textsecure"

mountPoint == <<Seg("mnt")>>
KeyPath == <<Seg("keys")>>

IsPrefix(a, b) == Len(a) <= Len(b) /\ SubSeq(b, 1, Len(a)) = a

\* path.Clean on the segments of an absolute path: ".." removes the segment
\* before it, and is dropped at the root.
RECURSIVE CleanFrom(_, _)
CleanFrom(done, rest) ==
    IF rest = <<>> THEN done
    ELSE IF Head(rest) = Up
           THEN CleanFrom(IF done = <<>> THEN <<>> ELSE SubSeq(done, 1, Len(done) - 1),
                          Tail(rest))
           ELSE CleanFrom(Append(done, Head(rest)), Tail(rest))

\* filepath.Join
Join(a, b) == CleanFrom(<<>>, a \o b)

\* Lines 523-537.
storagePath == Join(mountPoint, KeyPath \o <<Seg("textsecure"), Seg("private")>>)
contactsPath == Join(mountPoint, <<Seg("textsecure"), Seg("contacts")>>)
attachmentsPath == Join(mountPoint, <<Seg("textsecure"), Seg("attachments")>>)

\* absolutePath: the path below the mount point, refused when it leaves it.
absolutePath(subPath) ==
    LET p == Join(mountPoint, subPath)
    IN  [path |-> p, err |-> IF IsPrefix(mountPoint, p) THEN "nil" ELSE "invalid path"]

\* detectKeyPath: is the path in the key storage, and in a private part of it
\* (<mount>/<KeyPath>/<cipher>/private).
detectKeyPath(p) ==
    LET keys == Join(mountPoint, KeyPath)
        inKeyPath == IsPrefix(keys, p)
    IN  [inKeyPath |-> inKeyPath,
         private |-> /\ inKeyPath
                     /\ Len(p) >= Len(keys) + 2
                     /\ p[Len(keys) + 2] = Seg("private")]

Digits == {"0", "1", "2", "3", "4", "5", "6", "7", "8", "9"}

\* Line 34 matching whatever ends in digits.
numberPatternUnanchored(n) ==
    /\ Len(n) >= 1
    /\ n[Len(n)] \in Digits

\* Line 34: ^(?:\+|00)[0-9]+$
numberPattern(n) ==
    \/ /\ Len(n) >= 2
       /\ n[1] = "+"
       /\ \A i \in 2..Len(n) : n[i] \in Digits
    \/ /\ Len(n) >= 3
       /\ n[1] = "0" /\ n[2] = "0"
       /\ \A i \in 3..Len(n) : n[i] \in Digits

InvalidContact == [Name |-> <<>>, Number |-> <<>>, HistoryPath |-> <<>>,
                   AttachmentDir |-> <<>>, err |-> "invalid contact"]

\* parseContact taking the name to end at the first space of the file name.
parseContactFirstSpace(path) ==
    IF ~(IsPrefix(contactsPath, path) /\ Len(path) = Len(contactsPath) + 1)
      THEN InvalidContact
    ELSE
      LET file == path[Len(path)]
          spaces == {i \in 1..Len(file) : file[i] = " "}
      IN  IF \/ file = <<>>
             \/ file[Len(file)] # contactExt
             \/ spaces = {}
            THEN InvalidContact
          ELSE
            LET k == CHOOSE i \in spaces : \A j \in spaces : i <= j
                name == SubSeq(file, 1, k - 1)
                number == SubSeq(file, k + 1, Len(file) - 1)
            IN  IF ~numberPattern(number)
                  THEN InvalidContact
                ELSE [Name |-> name,
                      Number |-> number,
                      HistoryPath |-> path,
                      AttachmentDir |-> Join(attachmentsPath,
                                             <<SubSeq(file, 1, Len(file) - 1)>>),
                      err |-> "nil"]

\* parseContact (lines 417-441): the path is contactsPath()/<name> <number>.textsecure,
\* the name being all that precedes the last space of the file name.
parseContact(path) ==
    IF ~(IsPrefix(contactsPath, path) /\ Len(path) = Len(contactsPath) + 1)
      THEN InvalidContact
    ELSE
      LET file == path[Len(path)]
          spaces == {i \in 1..Len(file) : file[i] = " "}
      IN  IF \/ file = <<>>
             \/ file[Len(file)] # contactExt
             \/ spaces = {}
            THEN InvalidContact
          ELSE
            LET k == CHOOSE i \in spaces : \A j \in spaces : j <= i
                name == SubSeq(file, 1, k - 1)
                number == SubSeq(file, k + 1, Len(file) - 1)
            IN  IF ~numberPattern(number)
                  THEN InvalidContact
                ELSE IF absolutePath(path).err # "nil"
                  THEN [InvalidContact EXCEPT !.err = "invalid path"]
                ELSE [Name |-> name,
                      Number |-> number,
                      HistoryPath |-> path,
                      AttachmentDir |-> Join(attachmentsPath,
                                             <<SubSeq(file, 1, Len(file) - 1)>>),
                      err |-> "nil"]

(***************************************************************************)
(* History entries (updateHistory, lines 475-489)                           *)
(***************************************************************************)
\* What time.Now() returns to each send request (lines 252, 260): seconds after
\* 15:04:00.
Now(s) == IF s = "s1" THEN 30 ELSE 90

\* t.Format(timeFormat) (lines 31, 484): the time to the minute.
Format(t) == IF t \div 60 = 0 THEN "Jan 02 15:04" ELSE "Jan 02 15:05"

\* Line 484: fmt.Sprintf("%s %s %s\n", t.Format(timeFormat), prefix, msg)
historyLine(t, prefix, msg) == <<Format(t), " ", prefix, " ">> \o msg \o <<LF>>

\* Line 476: OpenFile with O_CREATE creates the file, empty, when it is missing.
OpenAppend(files, path) ==
    [q \in DOMAIN files \cup {path} |-> IF q \in DOMAIN files THEN files[q] ELSE <<>>]

\* A write at the offset of the descriptor, as it is without O_APPEND.
WriteAtOffset(content, off, data) ==
    [i \in 1..(IF off + Len(data) > Len(content) THEN off + Len(data) ELSE Len(content)) |->
        IF i > off /\ i <= off + Len(data) THEN data[i - off] ELSE content[i]]

\* Line 486 on a descriptor opened with O_APPEND (line 476): the bytes go to the end
\* of the file in one write, whatever the offset of the descriptor.
FileWrite(content, off, data) == content \o data

\* What one Write of a line (line 486) puts into the file: the whole line, or, when
\* it fails (a full volume, an I/O error), the bytes it got to before: none, or a
\* part of the line, here the line up to its line feed.
WriteOutcomes(line) == {line, <<>>, SubSeq(line, 1, Len(line) - 1)}

\* The record of a write in appendLog: nothing is recorded of a write of no byte,
\* and a part of a line is recorded as "short".
Logged(log, by, path, kind, line, data) ==
    IF data = <<>> THEN log
    ELSE Append(log, [by |-> by, path |-> path,
                      kind |-> IF data = line THEN kind ELSE "short",
                      data |-> data])

(***************************************************************************)
(* Send requests (sendMessage, lines 197-273)                               *)
(***************************************************************************)
Senders == {"s1", "s2"}

Absent == [kind |-> "absent", val |-> <<>>]
NotAString == [kind |-> "other", val |-> <<>>]
String(v) == [kind |-> "string", val |-> v]

AliceFile == <<"A", " ", "+", "1", contactExt>>
AliceSub == <<Seg("textsecure"), Seg("contacts"), AliceFile>>
AlicePath == Join(mountPoint, AliceSub)

\* The contact field of a request: a contact file, a file name without a number, a
\* path that climbs out of the contacts into the key storage, another type, nothing.
ContactFields ==
    { String(AliceSub),
      String(<<Seg("textsecure"), Seg("contacts"), <<"A", contactExt>>>>),
      String(<<Seg("textsecure"), Seg("contacts"), Up, Up>> \o KeyPath
               \o <<Seg("textsecure"), Seg("private"), AliceFile>>),
      NotAString,
      Absent }

MsgFields == {String(<<"hello">>), Absent}

numberPath == Join(storagePath, <<Seg("number")>>)

\* Attachment paths that lead into the private key storage, directly and with ../
PrivateAttachments ==
    { String(KeyPath \o <<Seg("textsecure"), Seg("private"), Seg("number")>>),
      String(<<Seg("textsecure"), Seg("contacts"), Up, Up>> \o KeyPath
               \o <<Seg("textsecure"), Seg("private"), Seg("number")>>) }

\* A file, a missing file, a public key, a path that leaves the mount point, and a
\* value that is no string.
OtherAttachments ==
    { String(<<Seg("files"), Seg("a.txt")>>),
      String(<<Seg("files"), Seg("missing")>>),
      String(KeyPath \o <<Seg("pgp"), Seg("public"), Seg("k")>>),
      String(<<Up, Up, Seg("etc"), Seg("passwd")>>),
      NotAString }

\* The files os.Open finds.
ExistingFiles ==
    { Join(mountPoint, <<Seg("files"), Seg("a.txt")>>),
      Join(mountPoint, KeyPath \o <<Seg("pgp"), Seg("public"), Seg("k")>>),
      numberPath }

Request(c, m, a) == [parsed |-> TRUE, contact |-> c, msg |-> m, attachment |-> a]

SendRequests ==
    {[parsed |-> FALSE, contact |-> Absent, msg |-> Absent, attachment |-> Absent]}
    \cup {Request(c, m, a) : c \in ContactFields, m \in MsgFields,
                             a \in PrivateAttachments \cup {Absent}}
    \cup {Request(String(AliceSub), String(<<"hello">>), a) : a \in OtherAttachments}

\* validateRequest(req, {"contact:s", "msg:s"}): both present, both strings.
validateRequest(req) == req.contact.kind = "string" /\ req.msg.kind = "string"

\* Line 235 refusing what is not private.
attachmentRefusedInverted(k) == k.inKeyPath /\ ~k.private

\* Line 235.
attachmentRefused(k) == k.inKeyPath /\ k.private

\* Lines 248, 256: err != nil.
sendFailed(ok) == ~ok

Checked(status, failedAt, contact, attachmentPath, opened) ==
    [status |-> status, failedAt |-> failedAt, contact |-> contact,
     attachmentPath |-> attachmentPath, opened |-> opened]

\* Lines 201-244: what sendMessage does before it calls the transport.
sendChecks(req) ==
    IF ~req.parsed THEN Checked("KO", "parse", InvalidContact, <<>>, FALSE)
    ELSE IF ~validateRequest(req) THEN Checked("KO", "validate", InvalidContact, <<>>, FALSE)
    ELSE
      LET contactPath == absolutePath(req.contact.val)
          contact == parseContact(contactPath.path)
      IN  IF contactPath.err # "nil" \/ contact.err # "nil"
            THEN Checked("KO", "contact", InvalidContact, <<>>, FALSE)
          ELSE IF req.attachment.kind = "absent"
            THEN Checked("ok", "", contact, <<>>, FALSE)
          ELSE IF req.attachment.kind # "string"
            THEN Checked("panic", "attachment type", contact, <<>>, FALSE)
          ELSE
            LET attachmentPath == absolutePath(req.attachment.val)
            IN  IF attachmentPath.err # "nil"
                  THEN Checked("KO", "attachment path", contact, <<>>, FALSE)
                ELSE IF attachmentRefused(detectKeyPath(attachmentPath.path))
                  THEN Checked("KO", "private key", contact, attachmentPath.path, FALSE)
                ELSE IF attachmentPath.path \notin ExistingFiles
                  THEN Checked("KO", "attachment open", contact, attachmentPath.path, FALSE)
                ELSE Checked("ok", "", contact, attachmentPath.path, TRUE)

\* path.Base
Base(path) == path[Len(path)]

\* Lines 252, 260: the body of the entry of a request.
sendBody(req, attachmentPath) ==
    IF req.attachment.kind = "absent"
      THEN req.msg.val
      ELSE <<"[">> \o Base(attachmentPath) \o <<"]", " ">> \o req.msg.val

\* Does the attachment of the request lead into the private key storage?
attachmentClass(req) ==
    IF ~req.parsed \/ req.attachment.kind = "absent" THEN "absent"
    ELSE IF req.attachment.kind # "string" THEN "not a string"
    ELSE IF IsPrefix(storagePath, Join(mountPoint, req.attachment.val)) THEN "private"
    ELSE "other"

IdleSender == [pc |-> "idle", attachment |-> "", msg |-> <<>>, resp |-> "none",
               failedAt |-> "", contact |-> InvalidContact, line |-> <<>>, off |-> 0,
               opened |-> FALSE, calls |-> <<>>, sent |-> FALSE, wrote |-> FALSE]

\* Lines 197-260 up to the call of updateHistory: the checks and the call of the
\* transport, which may fail.
SendRequest(s) ==
    /\ sender[s].pc = "idle"
    /\ \E req \in SendRequests, transportOk \in BOOLEAN :
         LET chk == sendChecks(req)
             me == [sender[s] EXCEPT !.attachment = attachmentClass(req),
                                     !.contact = chk.contact,
                                     !.opened = chk.opened, !.failedAt = chk.failedAt]
         IN  IF chk.status # "ok"
               THEN sender' = [sender EXCEPT ![s] =
                                  [me EXCEPT !.pc = "done", !.resp = chk.status]]
               ELSE LET call == [op |-> IF req.attachment.kind = "absent"
                                          THEN "SendMessage" ELSE "SendAttachment",
                                 number |-> chk.contact.Number,
                                 msg |-> req.msg.val,
                                 ok |-> transportOk]
                        called == [me EXCEPT !.calls = Append(@, call),
                                             !.msg = req.msg.val]
                    IN  sender' = [sender EXCEPT ![s] =
                          IF sendFailed(transportOk)
                            THEN [called EXCEPT !.pc = "done", !.resp = "KO",
                                                !.failedAt = "transport"]
                            ELSE [called EXCEPT !.pc = "open", !.sent = transportOk,
                                                !.line = historyLine(Now(s), ">",
                                                        sendBody(req, chk.attachmentPath))]]
    /\ UNCHANGED <<historyFiles, inbound, saved, reported, appendLog, initialFiles>>
    /\ UNCHANGED notRelay

\* Lines 476-482 called from line 252 or 260: the history file is opened, and
\* created if need be; a failure is reported and ends the request with an error
\* (line 263).
SendOpenHistory(s) ==
    /\ sender[s].pc = "open"
    /\ \E ok \in BOOLEAN :
         IF ok
           THEN /\ historyFiles' = OpenAppend(historyFiles, sender[s].contact.HistoryPath)
                /\ sender' = [sender EXCEPT ![s].pc = "write", ![s].off = 0]
                /\ UNCHANGED reported
           ELSE /\ reported' = reported + 1
                /\ sender' = [sender EXCEPT ![s].pc = "done", ![s].resp = "KO",
                                            ![s].failedAt = "history open"]
                /\ UNCHANGED historyFiles
    /\ UNCHANGED <<inbound, saved, appendLog, initialFiles>>
    /\ UNCHANGED notRelay

\* Lines 484-488 and 263-272: the line is written with one Write, whose result is
\* not looked at; the file is closed, updateHistory returns nil and the request is
\* answered with status OK.
SendWriteHistory(s) ==
    /\ sender[s].pc = "write"
    /\ \E data \in WriteOutcomes(sender[s].line) :
         LET path == sender[s].contact.HistoryPath IN
         /\ historyFiles' = [historyFiles EXCEPT ![path] =
                                FileWrite(@, sender[s].off, data)]
         /\ appendLog' = Logged(appendLog, s, path, "send", sender[s].line, data)
         /\ sender' = [sender EXCEPT ![s].pc = "done", ![s].resp = "OK",
                                     ![s].wrote = (data = sender[s].line)]
    /\ UNCHANGED <<inbound, saved, reported, initialFiles>>
    /\ UNCHANGED notRelay

(***************************************************************************)
(* Inbound messages (messageHandler, getContact, saveAttachment)            *)
(***************************************************************************)
\* The most attachments an inbound message carries.
MaxAttachments == 2

\* The order of the bytes that occur in the names of contact files.
TokenRank(t) ==
    CASE t = " " -> 32
      [] t = "+" -> 43
      [] t = contactExt -> 46
      [] t = "0" -> 48
      [] t = "1" -> 49
      [] t = "2" -> 50
      [] t = "3" -> 51
      [] t = "4" -> 52
      [] t = "5" -> 53
      [] t = "6" -> 54
      [] t = "7" -> 55
      [] t = "8" -> 56
      [] t = "9" -> 57
      [] t = "A" -> 65
      [] t = "B" -> 66
      [] OTHER -> 85

\* a sorts before b.
RECURSIVE LexLess(_, _)
LexLess(a, b) ==
    IF b = <<>> THEN FALSE
    ELSE IF a = <<>> THEN TRUE
    ELSE IF Head(a) = Head(b) THEN LexLess(Tail(a), Tail(b))
    ELSE TokenRank(Head(a)) < TokenRank(Head(b))

EndsWith(a, suffix) ==
    Len(suffix) <= Len(a) /\ SubSeq(a, Len(a) - Len(suffix) + 1, Len(a)) = suffix

\* Line 455: filepath.Glob(contactsPath() + "/*" + number + "." + contactExt)
Glob(files, number) ==
    {q \in DOMAIN files : /\ IsPrefix(contactsPath, q)
                          /\ Len(q) = Len(contactsPath) + 1
                          /\ EndsWith(q[Len(q)], number \o <<contactExt>>)}

\* contacts[0]: Glob returns the matches sorted.
FirstMatch(contacts) ==
    CHOOSE q \in contacts :
        \A r \in contacts : r = q \/ LexLess(q[Len(q)], r[Len(r)])

\* getContact naming the file of an unknown sender without the number.
getContactUnnumbered(number, files, mkdirOk) ==
    IF ~numberPattern(number)
      THEN [InvalidContact EXCEPT !.err = "invalid contact number format"]
    ELSE IF ~mkdirOk
      THEN [InvalidContact EXCEPT !.err = "mkdir"]
    ELSE
      LET contacts == Glob(files, number)
      IN  IF contacts = {}
            THEN [Name |-> <<"Unknown">>,
                  Number |-> number,
                  HistoryPath |-> Join(contactsPath, <<<<"Unknown", contactExt>>>>),
                  AttachmentDir |-> Join(attachmentsPath, <<<<"Unknown", " ">> \o number>>),
                  err |-> "nil"]
            ELSE parseContact(FirstMatch(contacts))

\* getContact (lines 443-473).
getContact(number, files, mkdirOk) ==
    IF ~numberPattern(number)
      THEN [InvalidContact EXCEPT !.err = "invalid contact number format"]
    ELSE IF ~mkdirOk
      THEN [InvalidContact EXCEPT !.err = "mkdir"]
    ELSE
      LET contacts == Glob(files, number)
      IN  IF contacts = {}
            THEN [Name |-> <<"Unknown">>,
                  Number |-> number,
                  HistoryPath |-> Join(contactsPath,
                                       <<<<"Unknown", " ">> \o number \o <<contactExt>>>>),
                  AttachmentDir |-> Join(attachmentsPath, <<<<"Unknown", " ">> \o number>>),
                  err |-> "nil"]
            ELSE parseContact(FirstMatch(contacts))

DigitText == <<"0", "1", "2", "3", "4", "5", "6", "7", "8", "9">>

\* ioutil.TempFile(attachmentPath, "attachment_") (line 402): a name not in use.
TempFile(dir, n) == Join(dir, <<<<"attachment_", DigitText[n + 1]>>>>)

\* relativePath: the path without the mount point, as text.
RECURSIVE PathText(_)
PathText(path) == IF path = <<>> THEN <<>>
                  ELSE <<"/">> \o Head(path) \o PathText(Tail(path))

relativePath(path) == PathText(SubSeq(path, Len(mountPoint) + 1, Len(path)))

SaveOutcomes == {"mkdir failed", "tempfile failed", "copy failed", "saved"}

\* saveAttachment with the result of io.Copy checked.
saveAttachmentChecked(contact, n, outcome) ==
    IF outcome \in {"mkdir failed", "tempfile failed", "copy failed"}
      THEN [name |-> <<>>, err |-> outcome]
      ELSE [name |-> relativePath(TempFile(contact.AttachmentDir, n)), err |-> "nil"]

\* saveAttachment (lines 393-415): the errors of MkdirAll and TempFile are returned,
\* the result of io.Copy is not looked at.
saveAttachment(contact, n, outcome) ==
    IF outcome \in {"mkdir failed", "tempfile failed"}
      THEN [name |-> <<>>, err |-> outcome]
      ELSE [name |-> relativePath(TempFile(contact.AttachmentDir, n)), err |-> "nil"]

InboundSources == {<<"+", "1">>, <<"+", "2">>, <<"1">>}

InboundMessages ==
    [source : InboundSources, text : {<<>>, <<"yo">>},
     attachments : 0..MaxAttachments, timestamp : {30}]

IdleInbound == [pc |-> "idle",
                msg |-> [source |-> <<>>, text |-> <<>>, attachments |-> 0, timestamp |-> 0],
                contact |-> InvalidContact, idx |-> 1, kind |-> "", line |-> <<>>,
                off |-> 0, lost |-> 0]

\* Where messageHandler goes on when attachment idx is the next one.
NextAttachment(idx, n) == IF idx > n THEN "done" ELSE "attach"

\* Lines 362-369: the listener hands the message to messageHandler, which starts
\* the goroutine of the notification (the go statement of line 365) and goes on;
\* the goroutine runs beside the rest of the handler from here.
InSpawnTimer ==
    /\ inbound.pc = "idle"
    /\ inbound' = [inbound EXCEPT !.pc = "resolve"]
    /\ timers' = Append(timers, [pc |-> "spawned", n |-> 0, source |-> inbound.msg.source])
    /\ UNCHANGED <<notifications, notifySeq>>
    /\ UNCHANGED <<historyFiles, sender, saved, reported, appendLog, initialFiles>>
    /\ UNCHANGED notInbound

\* Lines 371-380: the sender is resolved (getContact), the error is reported and
\* the handler returns, or an entry for the text, if there is one, is about to be
\* written.
InReceive ==
    /\ inbound.pc = "resolve"
    /\ \E mkdirOk \in BOOLEAN :
         LET msg == inbound.msg
             contact == getContact(msg.source, historyFiles, mkdirOk)
             me == [inbound EXCEPT !.contact = contact, !.idx = 1]
         IN  IF contact.err # "nil"
               THEN /\ reported' = reported + 1
                    /\ inbound' = [me EXCEPT !.pc = "done"]
               ELSE /\ UNCHANGED reported
                    /\ inbound' =
                         IF msg.text # <<>>
                           THEN [me EXCEPT !.pc = "open", !.kind = "text",
                                           !.line = historyLine(msg.timestamp, "<", msg.text)]
                           ELSE [me EXCEPT !.pc = NextAttachment(1, msg.attachments)]
    /\ UNCHANGED <<historyFiles, sender, saved, appendLog, initialFiles>>
    /\ UNCHANGED notRelay

\* The attachment messageHandler turns to after the entry it is writing.
AfterEntry == IF inbound.kind = "text" THEN inbound.idx ELSE inbound.idx + 1

\* Lines 476-482 called from line 379 or 388: a failure is reported by updateHistory
\* and messageHandler goes on.
InOpenHistory ==
    /\ inbound.pc = "open"
    /\ \E ok \in BOOLEAN :
         IF ok
           THEN /\ historyFiles' = OpenAppend(historyFiles, inbound.contact.HistoryPath)
                /\ inbound' = [inbound EXCEPT !.pc = "write", !.off = 0]
                /\ UNCHANGED reported
           ELSE /\ reported' = reported + 1
                /\ inbound' = [inbound EXCEPT
                                  !.pc = NextAttachment(AfterEntry, inbound.msg.attachments),
                                  !.idx = AfterEntry,
                                  !.lost = @ + 1]
                /\ UNCHANGED historyFiles
    /\ UNCHANGED <<sender, saved, appendLog, initialFiles>>
    /\ UNCHANGED notRelay

\* Lines 484-488 called from line 379 or 388.
InWriteHistory ==
    /\ inbound.pc = "write"
    /\ \E data \in WriteOutcomes(inbound.line) :
         LET path == inbound.contact.HistoryPath IN
         /\ historyFiles' = [historyFiles EXCEPT ![path] =
                                FileWrite(@, inbound.off, data)]
         /\ appendLog' = Logged(appendLog, "in", path, inbound.kind, inbound.line, data)
         /\ inbound' = [inbound EXCEPT
                           !.pc = NextAttachment(AfterEntry, inbound.msg.attachments),
                           !.idx = AfterEntry,
                           !.lost = IF data = inbound.line THEN @ ELSE @ + 1]
    /\ UNCHANGED <<sender, saved, reported, initialFiles>>
    /\ UNCHANGED notRelay

\* Lines 382-390 for one attachment: it is saved, and either the error is reported
\* or an entry with the name of the file is about to be written.
InSaveAttachment ==
    /\ inbound.pc = "attach"
    /\ \E outcome \in SaveOutcomes :
         LET r == saveAttachment(inbound.contact, Len(saved) + 1, outcome) IN
         /\ saved' = IF outcome \in {"copy failed", "saved"}
                       THEN Append(saved,
                              [path |-> TempFile(inbound.contact.AttachmentDir,
                                                 Len(saved) + 1),
                               attachment |-> inbound.idx,
                               complete |-> outcome = "saved"])
                       ELSE saved
         /\ IF r.err # "nil"
              THEN /\ reported' = reported + 1
                   /\ inbound' = [inbound EXCEPT
                                     !.pc = NextAttachment(inbound.idx + 1,
                                                           inbound.msg.attachments),
                                     !.idx = inbound.idx + 1]
              ELSE /\ UNCHANGED reported
                   /\ inbound' = [inbound EXCEPT
                                     !.pc = "open", !.kind = "attachment",
                                     !.line = historyLine(inbound.msg.timestamp, "<",
                                                          <<"[">> \o r.name \o <<"]">>)]
    /\ UNCHANGED <<historyFiles, sender, appendLog, initialFiles>>
    /\ UNCHANGED notRelay

(***************************************************************************)
(* The notification of an inbound message (lines 365-369)                   *)
(***************************************************************************)
\* The most messages the listener hands to messageHandler in a run.
MaxMessages == 2

\* status.Notify: the notification is shown under a handle of its own, which is
\* returned.
statusNotify(shown, seq, source) ==
    [n |-> seq + 1, shown |-> shown \cup {[id |-> seq + 1, source |-> source]}]

\* status.Remove(n): the notification with the handle n is taken away.
statusRemove(shown, n) == {x \in shown : x.id # n}

\* Line 366 in the goroutine of message i.
TimerNotify(i) ==
    /\ i \in DOMAIN timers
    /\ timers[i].pc = "spawned"
    /\ LET r == statusNotify(notifications, notifySeq, timers[i].source) IN
         /\ notifications' = r.shown
         /\ notifySeq' = r.n
         /\ timers' = [timers EXCEPT ![i].pc = "sleeping", ![i].n = r.n]
    /\ UNCHANGED notNotify

\* Lines 367-368 with the oldest notification removed in the place of n.
TimerRemoveOldest(i) ==
    /\ i \in DOMAIN timers
    /\ timers[i].pc = "sleeping"
    /\ notifications' =
         {x \in notifications : \E y \in notifications : y.id < x.id}
    /\ timers' = [timers EXCEPT ![i].pc = "done"]
    /\ UNCHANGED notifySeq
    /\ UNCHANGED notNotify

\* Lines 367-368 in the goroutine of message i: the 30 seconds of time.Sleep are
\* over and the notification n is removed.
TimerRemove(i) ==
    /\ i \in DOMAIN timers
    /\ timers[i].pc = "sleeping"
    /\ notifications' = statusRemove(notifications, timers[i].n)
    /\ timers' = [timers EXCEPT ![i].pc = "done"]
    /\ UNCHANGED notifySeq
    /\ UNCHANGED notNotify

(***************************************************************************)
(* History requests on the files of the relay (downloadHistory, 275-343)    *)
(***************************************************************************)
\* The most history requests handled in a run.
MaxReads == 2

\* The number of bytes of a token of a history file.
ByteLen(t) ==
    CASE t \in {"Jan 02 15:04", "Jan 02 15:05"} -> 12
      [] t \in {"attachments", "attachment_"} -> 11
      [] t = "textsecure" -> 10
      [] t = "Unknown" -> 7
      [] t \in {"hello", "a.txt"} -> 5
      [] t = "old" -> 3
      [] t = "yo" -> 2
      [] OTHER -> 1

\* The bytes of a history file, in runs: a token of n bytes is a run of length n.
RECURSIVE Encode(_)
Encode(content) ==
    IF content = <<>> THEN <<>>
    ELSE BCat(BRep(Head(content), ByteLen(Head(content))), Encode(Tail(content)))

\* The history requests: no request that parses, and a request with each of the
\* contact fields.
HistoryRequests ==
    {[parsed |-> FALSE, contact |-> Absent]}
    \cup {[parsed |-> TRUE, contact |-> c] : c \in ContactFields}
    \cup {[parsed |-> TRUE,
           contact |-> String(<<Seg("textsecure"), Seg("contacts"),
                                <<"Unknown", " ", "+", "1", contactExt>>>>)]}

\* validateRequest(req, {"contact:s"}): the contact is present, and a string.
validateContact(req) == req.contact.kind = "string"

Answer(status, failedAt, path, response) ==
    [status |-> status, failedAt |-> failedAt, path |-> path, response |-> response]

\* Lines 275-305 of downloadHistory on the files as they are: the checks of the
\* request, and Open, which fails when the file does not exist.
downloadOpen(req, files) ==
    IF ~req.parsed THEN Answer("KO", "parse", <<>>, <<>>)
    ELSE IF ~validateContact(req) THEN Answer("KO", "validate", <<>>, <<>>)
    ELSE
      LET contactPath == absolutePath(req.contact.val)
      IN  IF contactPath.err # "nil" \/ parseContact(contactPath.path).err # "nil"
            THEN Answer("KO", "contact", <<>>, <<>>)
          ELSE IF contactPath.path \notin DOMAIN files
            THEN Answer("KO", "history open", contactPath.path, <<>>)
          ELSE Answer("opened", "", contactPath.path, <<>>)

IdleReader == [pc |-> "idle", n |-> 0, size |-> 0, fd |-> NoFd,
               last |-> Answer("none", "", <<>>, <<>>)]

\* A history request from its arrival to os.Open (lines 275-305): it is answered
\* with an error, or has the file open.
HistoryOpen ==
    /\ reader.pc = "idle"
    /\ reader.n < MaxReads
    /\ \E req \in HistoryRequests :
         LET r == downloadOpen(req, historyFiles) IN
         reader' = IF r.status = "opened"
                     THEN [reader EXCEPT
                             !.pc = "open", !.last = r,
                             !.fd = osOpen(@, Encode(historyFiles[r.path])).fd]
                     ELSE [reader EXCEPT !.n = @ + 1, !.last = r]
    /\ UNCHANGED notReader

\* Lines 307-311: Stat on the file as it is now; when it fails the request is
\* answered with an error.
HistoryStat ==
    /\ reader.pc = "open"
    /\ \E ioOk \in BOOLEAN :
         reader' = IF ioOk
                     THEN [reader EXCEPT
                             !.pc = "opened",
                             !.size = Stat(Encode(historyFiles[reader.last.path]))]
                     ELSE [reader EXCEPT
                             !.pc = "idle", !.n = @ + 1, !.fd = Close(@),
                             !.last = Answer("KO", "history stat", reader.last.path,
                                             <<>>)]
    /\ UNCHANGED notReader

\* Lines 313-343: Seek and ReadAll on the file as it is now, and the response.
HistoryRead ==
    /\ reader.pc = "opened"
    /\ \E ioOk \in BOOLEAN :
         LET r == readTail(reader.fd, reader.size,
                           Encode(historyFiles[reader.last.path])) IN
         reader' = [reader EXCEPT
                      !.pc = "idle",
                      !.n = @ + 1,
                      !.fd = Close(IF ioOk THEN r.fd ELSE @),
                      !.last = IF ioOk
                                 THEN Answer("OK", "", reader.last.path, r.response)
                                 ELSE Answer("KO", "history read", reader.last.path, <<>>)]
    /\ UNCHANGED notReader

(***************************************************************************)
(* The relay: the send requests and the inbound handler side by side        *)
(***************************************************************************)
OldLine == historyLine(0, "<", <<"old">>)

\* The contacts directory before the requests: empty, or with the history file of
\* the contact holding an entry.
InitialFileSets ==
    { [q \in {} |-> <<>>],
      [q \in {AlicePath} |-> OldLine] }

\* The message that arrives while two send requests are handled: a text from the
\* number of the contact, with an attachment or without.
RelayMessages ==
    [source : {<<"+", "1">>}, text : {<<"yo">>}, attachments : {0, 1}, timestamp : {30}]

\* The state before the requests in senders and the message in messages.
RelayInit(senders, messages) ==
    /\ NotifyIdle
    /\ historyFiles \in InitialFileSets
    /\ initialFiles = historyFiles
    /\ sender = [s \in senders |-> IdleSender]
    /\ inbound \in {[IdleInbound EXCEPT !.msg = m] : m \in messages}
    /\ saved = <<>>
    /\ reported = 0
    /\ appendLog = <<>>

InboundNext ==
    \/ InSpawnTimer
    \/ InReceive
    \/ InOpenHistory
    \/ InWriteHistory
    \/ InSaveAttachment
    \/ \E i \in 1..MaxMessages : TimerNotify(i)
    \/ \E i \in 1..MaxMessages : TimerRemove(i)

RelayNext ==
    \/ \E s \in Senders : SendRequest(s)
    \/ \E s \in Senders : SendOpenHistory(s)
    \/ \E s \in Senders : SendWriteHistory(s)
    \/ InSpawnTimer
    \/ InReceive
    \/ InOpenHistory
    \/ InWriteHistory
    \/ InSaveAttachment
    \/ \E i \in 1..MaxMessages : TimerNotify(i)
    \/ \E i \in 1..MaxMessages : TimerRemove(i)

\* The relay before the requests, the history file of the contact holding an entry.
InitRelay ==
    /\ ActIdle /\ TailIdle /\ OthersIdle
    /\ RelayInit(Senders, RelayMessages)
    /\ AlicePath \in DOMAIN historyFiles

\* Two send requests and the handler of an inbound message, side by side.
SpecRelay == InitRelay /\ [][RelayNext]_vars

InitInbound ==
    ActIdle /\ TailIdle /\ OthersIdle /\ RelayInit({}, InboundMessages)

\* The handler of an inbound message, for every message.
SpecInbound == InitInbound /\ [][InboundNext]_vars

\* The messages of a run of the listener: an attachment from a contact, and a text
\* from a source that is no number.
NotifyMessages ==
    { [source |-> <<"+", "1">>, text |-> <<>>, attachments |-> 1, timestamp |-> 30],
      [source |-> <<"1">>, text |-> <<"yo">>, attachments |-> 0, timestamp |-> 30] }

\* The listener hands the next message to messageHandler once the handler has
\* returned from the one before.
InDeliver ==
    /\ inbound.pc = "done"
    /\ Len(timers) < MaxMessages
    /\ \E m \in NotifyMessages : inbound' = [IdleInbound EXCEPT !.msg = m]
    /\ UNCHANGED <<historyFiles, sender, saved, reported, appendLog, initialFiles>>
    /\ UNCHANGED notRelay

NotifyNext ==
    \/ InDeliver
    \/ InSpawnTimer
    \/ InReceive
    \/ InOpenHistory
    \/ InWriteHistory
    \/ InSaveAttachment
    \/ \E i \in 1..MaxMessages : TimerNotify(i)
    \/ \E i \in 1..MaxMessages : TimerRemove(i)

\* The listener before its first message, the contacts directory empty.
InitNotify ==
    /\ ActIdle /\ TailIdle /\ OthersIdle
    /\ RelayInit({}, NotifyMessages)
    /\ DOMAIN historyFiles = {}

\* The listener with its messages one after the other, and their timers.
SpecNotify == InitNotify /\ [][NotifyNext]_vars

\* The same with the goroutines scheduled: the handler goes on while it can, and
\* each timer does.
SpecNotifyFair ==
    /\ SpecNotify
    /\ WF_vars(InSpawnTimer \/ InReceive \/ InOpenHistory \/ InWriteHistory
               \/ InSaveAttachment)
    /\ \A i \in 1..MaxMessages : WF_vars(TimerNotify(i)) /\ WF_vars(TimerRemove(i))

\* The message that arrives while a send request and history requests are handled:
\* a text with an attachment from the contact, or a text from an unknown number.
StoreMessages ==
    { [source |-> <<"+", "1">>, text |-> <<"yo">>, attachments |-> 1, timestamp |-> 30],
      [source |-> <<"+", "2">>, text |-> <<"yo">>, attachments |-> 0, timestamp |-> 30] }

StoreNext ==
    \/ SendRequest("s1")
    \/ SendOpenHistory("s1")
    \/ SendWriteHistory("s1")
    \/ InSpawnTimer
    \/ InReceive
    \/ InOpenHistory
    \/ InWriteHistory
    \/ InSaveAttachment
    \/ \E i \in 1..MaxMessages : TimerNotify(i)
    \/ \E i \in 1..MaxMessages : TimerRemove(i)
    \/ HistoryOpen
    \/ HistoryStat
    \/ HistoryRead

\* The store before the requests, the contacts directory empty.
InitStore ==
    /\ ActIdle /\ TailIdle /\ ResolveIdle /\ RereadIdle
    /\ reader = IdleReader
    /\ RelayInit({"s1"}, StoreMessages)
    /\ DOMAIN historyFiles = {}

\* A send request, the handler of an inbound message and history requests, side by
\* side on the same files.
SpecStore == InitStore /\ [][StoreNext]_vars

(***************************************************************************)
(* Contact resolution for every path and number within the bounds           *)
(***************************************************************************)
\* The longest display name and the longest number, in characters.
MaxName == 2
MaxNumber == 3

NameChars == {"A", " ", "+", "1"}
NumberChars == {"+", "0", "1", "9"}

NameTexts == SeqUpTo(NameChars, MaxName)
NumberTexts == SeqUpTo(NumberChars, MaxNumber)

\* File names: a name, a space and a number with the extension, without the
\* extension, and without the space.
FileNames ==
    {name \o <<" ">> \o n \o <<contactExt>> : name \in NameTexts, n \in NumberTexts}
    \cup {name \o <<" ">> \o n : name \in {<<"A">>}, n \in NumberTexts}
    \cup {name \o n \o <<contactExt>> : name \in {<<"A">>}, n \in NumberTexts}

\* The paths asked for: the file names in the contacts directory, in a directory
\* below it, and in the attachments directory.
ResolvePaths ==
    {Join(contactsPath, <<f>>) : f \in FileNames}
    \cup {Join(contactsPath, <<Seg("sub"), f>>) : f \in {<<"A", " ", "+", "1", contactExt>>}}
    \cup {Join(attachmentsPath, <<f>>) : f \in {<<"A", " ", "+", "1", contactExt>>}}

\* The contact files there may be when a number is resolved.
DirectoryNames ==
    { <<"A", " ", "+", "1", contactExt>>,
      <<"B", " ", "+", "0", "1", contactExt>>,
      <<"A", " ", "0", "0", "1", contactExt>>,
      <<"B", " ", "+", "0", "0", "1", contactExt>>,
      <<"A", "+", "1", contactExt>>,
      <<"Unknown", " ", "+", "1", contactExt>> }

Directories ==
    {[q \in {Join(contactsPath, <<f>>) : f \in names} |-> <<>>] :
        names \in {d \in SUBSET DirectoryNames : Cardinality(d) <= 2}}

ResolveInit ==
    resolve \in
        {[pc |-> "ready", op |-> "byPath", path |-> p, number |-> <<>>,
          files |-> <<>>, result |-> InvalidContact] : p \in ResolvePaths}
        \cup
        {[pc |-> "ready", op |-> "byNumber", path |-> <<>>, number |-> n,
          files |-> d, result |-> InvalidContact] : n \in NumberTexts, d \in Directories}

\* parseContact on the path asked for.
ResolveByPath ==
    /\ resolve.pc = "ready"
    /\ resolve.op = "byPath"
    /\ resolve' = [resolve EXCEPT !.pc = "done", !.result = parseContact(resolve.path)]
    /\ UNCHANGED notResolve

\* getContact on the number asked for; MkdirAll of the contacts directory may fail.
ResolveByNumber ==
    /\ resolve.pc = "ready"
    /\ resolve.op = "byNumber"
    /\ \E mkdirOk \in BOOLEAN :
         resolve' = [resolve EXCEPT
                       !.pc = "done",
                       !.result = getContact(resolve.number, resolve.files, mkdirOk)]
    /\ UNCHANGED notResolve

ResolveNext == ResolveByPath \/ ResolveByNumber

InitResolve == ActIdle /\ TailIdle /\ RelayIdle /\ ReaderIdle /\ RereadIdle /\ ResolveInit

SpecResolve == InitResolve /\ [][ResolveNext]_vars

Spec == SpecActivate

(***************************************************************************)
(* Properties of the activation                                             *)
(***************************************************************************)
RegistrationRun == ~postAuth /\ register

\* C3: registration is one-shot. In a registration run that finds the sentinel
\* marker present, the number file keeps its content, the number is never prompted
\* for or written, the client is never set up, the listener never starts and
\* Activate never returns; once the marker has been checked the process has ended
\* with the AlreadyRegistered fatal error (the only earlier end is a failed unlock).
C3_RegistrationOneShot ==
    (RegistrationRun /\ actLog.sentinel0) =>
        /\ numberFile = actLog.number0
        /\ ~actLog.prompted
        /\ ~actLog.setupCalled
        /\ listener = "notstarted"
        /\ retVal = NoReturn
        /\ actLog.checked # "needed"
        /\ (Exited => exitMsg \in {"AlreadyRegistered", "AuthenticationFailed"})
        /\ (actLog.checked = "present" => exitMsg = "AlreadyRegistered")

C3_Witness ==
    /\ RegistrationRun
    /\ exitMsg = "AlreadyRegistered"
    /\ actLog.number0 # NoFile
    /\ numberFile = actLog.number0

\* C6: the listener is started only after the number was read back from the number
\* file and the client setup succeeded; a post-authentication activation without a
\* number file never sets up the client nor starts the listener, and when it returns
\* it returns the NotRegistered error.
C6_ListenerAfterNumberAndSetup ==
    /\ (listener # "notstarted") =>
          /\ actLog.numberRead
          /\ actLog.setupOk
          /\ numberFile # NoFile
          /\ tNumber = numberFile
    /\ (actLog.setupCalled => actLog.numberRead)
    /\ (postAuth /\ numberFile = NoFile) =>
          /\ ~actLog.setupCalled
          /\ listener = "notstarted"
          /\ (actPc \notin {"start", "mkdir", "readnumber"} /\ ~Exited) =>
                (actPc = "returned" /\ retVal = [c |-> "nil", err |-> "NotRegistered"])
          /\ (Exited => exitMsg = "MkdirFailed")

C6_Witness ==
    /\ listener = "listening"
    /\ actLog.numberRead
    /\ actLog.setupOk
    /\ tNumber \in Numbers

\* C7: a failure of the listener is logged and never escalated: after a successful
\* client setup Activate returns a nil error to its caller, whatever the listener
\* does and whenever it does it.
C7_ListenerFailureNotEscalated ==
    (actLog.setupOk /\ actPc = "returned") => retVal = [c |-> "t", err |-> "nil"]

\* C8: in a registration run a successful client setup leads to the process exiting
\* with status 0 with the volume locked (locked by Activate outside test mode, where
\* it was unlocked by Activate), and the listener is never started.
C8_RegistrationEndsLockedAndExits ==
    /\ (RegistrationRun /\ actLog.setupOk)
          ~> (exitMsg = "Exit0" /\ volume = "locked" /\ (testMode \/ actLog.locked))
    /\ [](RegistrationRun => (listener = "notstarted" /\ actPc # "return"))

C8_Witness ==
    /\ RegistrationRun
    /\ actLog.setupOk
    /\ exitMsg = "Exit0"
    /\ ~testMode
    /\ actLog.locked
    /\ volume = "locked"

(***************************************************************************)
(* Properties of the tail read                                              *)
(***************************************************************************)
\* The offset (from 0) in the file at which the returned text begins.
TailStart == BLen(tailFile) - BLen(tailResp.response)

\* The offsets at or after the truncation offset that hold a line feed.
TailFeeds == {i \in (BLen(tailFile) - historySize)..(BLen(tailFile) - 1) :
                 i >= 0 /\ BAt(tailFile, i) = LF}

\* C4: a successful history read returns a suffix of the file: the whole file when
\* it holds at most historySize bytes, and otherwise the suffix that begins right
\* after the first line feed at or after offset size - historySize, so that the text
\* always begins on a line boundary (at offset 0 or right after a line feed).
C4_TailStartsAfterLineFeed ==
    (tailPc = "done" /\ tailResp.status = "OK" /\ ~tailAppended) =>
        /\ TailStart >= 0
        /\ tailResp.response = BDrop(tailFile, TailStart)
        /\ (BLen(tailFile) <= historySize => TailStart = 0)
        /\ (BLen(tailFile) > historySize =>
              /\ (TailStart = 0 \/ BAt(tailFile, TailStart - 1) = LF)
              /\ (TailFeeds # {} =>
                    \E i \in TailFeeds : /\ \A j \in TailFeeds : i <= j
                                         /\ TailStart = i + 1))

(***************************************************************************)
(* Properties of the relay                                                  *)
(***************************************************************************)
\* The lines of a file: each with the line feed that ends it, the last one without
\* when the file does not end with a line feed.
RECURSIVE SplitLines(_, _)
SplitLines(content, line) ==
    IF content = <<>> THEN (IF line = <<>> THEN <<>> ELSE <<line>>)
    ELSE IF Head(content) = LF
           THEN <<Append(line, LF)>> \o SplitLines(Tail(content), <<>>)
           ELSE SplitLines(Tail(content), Append(line, Head(content)))

Lines(content) == SplitLines(content, <<>>)

Count(x, seq) == Cardinality({i \in DOMAIN seq : seq[i] = x})

\* The writes to the file at path, as places of appendLog.
WritesTo(path) == {i \in DOMAIN appendLog : appendLog[i].path = path}

\* The writes of process p.
WritesBy(p) == {i \in DOMAIN appendLog : appendLog[i].by = p}

InitialLines(path) ==
    IF path \in DOMAIN initialFiles THEN Lines(initialFiles[path]) ELSE <<>>

\* The writes to the file at path have each written one complete line.
CompleteWrites(path) == \A w \in WritesTo(path) : appendLog[w].kind # "short"

SendFailures == {"parse", "validate", "contact", "attachment type", "attachment path",
                 "private key", "attachment open", "transport"}

\* C2: a send request that fails in parsing, validation, contact resolution, the
\* opening of the attachment or the call of the transport ends with an error and
\* has written nothing to a history file; a request turns to the history file, and
\* writes its one entry, only after its own call of the transport has succeeded.
C2_NoHistoryBeforeTransportSuccess ==
    \A s \in DOMAIN sender :
        /\ (sender[s].failedAt \in SendFailures) =>
              /\ sender[s].pc = "done"
              /\ sender[s].resp = "KO"
              /\ WritesBy(s) = {}
              /\ ~sender[s].wrote
        /\ (sender[s].pc \in {"open", "write"} \/ WritesBy(s) # {}) =>
              /\ Len(sender[s].calls) = 1
              /\ sender[s].calls[1].ok
        /\ Cardinality(WritesBy(s)) <= 1

\* C5: a send request whose attachment path lies in the private key storage once
\* the ../ are resolved ends with an error, whatever its other fields: the attachment
\* is not opened, the transport is not called and nothing is written to a history
\* file.
C5_PrivateKeyAttachmentRefused ==
    \A s \in DOMAIN sender :
        (sender[s].attachment = "private") =>
            /\ sender[s].pc = "done"
            /\ sender[s].resp = "KO"
            /\ ~sender[s].opened
            /\ sender[s].calls = <<>>
            /\ WritesBy(s) = {}

\* A request with a valid contact and message was refused for its attachment.
C5_Witness ==
    \E s \in DOMAIN sender :
        /\ sender[s].attachment = "private"
        /\ sender[s].failedAt = "private key"
        /\ sender[s].contact.err = "nil"
        /\ sender[s].resp = "KO"

\* C9: a send request for a valid contact path, with a message and no attachment,
\* that is answered with status OK has called the plain send of the transport once,
\* with the number of the contact path, and the history file of the contact has
\* gained the line "<time> > <msg>" of this request, once.
C9_SendOkMeansLineWritten ==
    \A s \in DOMAIN sender :
        (sender[s].resp = "OK" /\ sender[s].attachment = "absent") =>
            /\ sender[s].calls = <<[op |-> "SendMessage", number |-> <<"+", "1">>,
                                    msg |-> sender[s].msg, ok |-> TRUE]>>
            /\ Cardinality(WritesBy(s)) = 1
            /\ \A w \in WritesBy(s) :
                 /\ appendLog[w].path = AlicePath
                 /\ appendLog[w].data = <<Format(Now(s)), " ", ">", " ">>
                                           \o sender[s].msg \o <<LF>>
            /\ AlicePath \in DOMAIN historyFiles
            /\ Count(<<Format(Now(s)), " ", ">", " ">> \o sender[s].msg \o <<LF>>,
                     Lines(historyFiles[AlicePath])) >= 1

\* The entries written for attachments, and the attachments saved whole.
AttachmentEntries == {w \in WritesBy("in") : appendLog[w].kind = "attachment"}
SavedWhole == {i \in DOMAIN saved : saved[i].complete}

\* C10: when the handler of an inbound message with k attachments is done it has
\* gone through all k of them, a failure of one not keeping it from the others, and
\* (no entry having been lost to a failure of the history file) it has written as
\* many attachment entries as it has saved attachments.
C10_EntryForEverySavedAttachment ==
    (inbound.pc = "done" /\ inbound.contact.err = "nil" /\ inbound.lost = 0) =>
        /\ inbound.idx = inbound.msg.attachments + 1
        /\ Cardinality(AttachmentEntries) = Cardinality(SavedWhole)

\* The history file of a number that has no contact file.
UnknownPath(number) ==
    Join(contactsPath, <<<<"Unknown", " ">> \o number \o <<contactExt>>>>)

\* The handler is done with a message from a valid number without a contact file,
\* with no text and one attachment, which was saved whole, and no failure of the
\* contacts directory or of the history file came in between.
UnknownAttachmentHandled ==
    /\ inbound.pc = "done"
    /\ numberPattern(inbound.msg.source)
    /\ Glob(initialFiles, inbound.msg.source) = {}
    /\ inbound.msg.text = <<>>
    /\ inbound.msg.attachments = 1
    /\ Len(saved) = 1
    /\ saved[1].complete
    /\ inbound.contact.err = "nil"
    /\ inbound.lost = 0

\* C11: an inbound message from a valid number that has no contact file, with no
\* text and one attachment that is saved, creates the history file
\* "Unknown <number>.textsecure", the only file created, and the file holds exactly
\* one line, "<time> < [<name>]", with the name under which the attachment was saved.
C11_UnknownSenderAttachmentEntry ==
    UnknownAttachmentHandled =>
        LET path == UnknownPath(inbound.msg.source) IN
        /\ DOMAIN historyFiles = DOMAIN initialFiles \cup {path}
        /\ path \notin DOMAIN initialFiles
        /\ \A q \in DOMAIN initialFiles : historyFiles[q] = initialFiles[q]
        /\ Len(Lines(historyFiles[path])) = 1
        /\ historyFiles[path]
             = <<Format(inbound.msg.timestamp), " ", "<", " ", "[">>
               \o relativePath(saved[1].path) \o <<"]", LF>>
        /\ IsPrefix(Join(attachmentsPath, <<<<"Unknown", " ">> \o inbound.msg.source>>),
                    saved[1].path)

\* The message of an unknown number was handled while another contact had a file.
C11_Witness ==
    /\ UnknownAttachmentHandled
    /\ inbound.msg.source = <<"+", "2">>
    /\ AlicePath \in DOMAIN initialFiles
    /\ UnknownPath(<<"+", "2">>) \in DOMAIN historyFiles

(***************************************************************************)
(* Properties of the requests on the store                                  *)
(***************************************************************************)
\* The ways in which the fields of a request are missing or malformed.
MalformedRequest == {"parse", "validate", "attachment type"}

\* C12: a send request or history request whose fields are missing or malformed,
\* an attachment that is no string included, is answered with an error response:
\* its handler does not panic, calls the transport not once and writes to no
\* history file.
C12_MalformedRequestGetsErrorResponse ==
    /\ \A s \in DOMAIN sender :
          (sender[s].failedAt \in MalformedRequest) =>
              /\ sender[s].resp = "KO"
              /\ sender[s].calls = <<>>
              /\ WritesBy(s) = {}
    /\ (reader.last.failedAt \in MalformedRequest) =>
              reader.last.status = "KO"

(***************************************************************************)
(* Properties of the contact resolution                                     *)
(***************************************************************************)
\* The canonical format of a number: + or 00, and then digits, at least one.
Canonical(n) ==
    \E k \in 1..2 :
        /\ Len(n) > k
        /\ SubSeq(n, 1, k) \in {<<"+">>, <<"0", "0">>}
        /\ \A i \in (k + 1)..Len(n) :
              \E d \in 0..9 : n[i] = DigitText[d + 1]

\* The file name is <name> <number>.<ext> with a number of the canonical format.
MatchesConvention(file) ==
    \E k \in 1..Len(file) :
        /\ file[k] = " "
        /\ file[Len(file)] = contactExt
        /\ Canonical(SubSeq(file, k + 1, Len(file) - 1))

\* C13: parseContact of a path in the contacts directory whose file name follows
\* the naming convention returns a record, and the name of the record, a space,
\* its number and the extension are the file name again; the history path of the
\* record is the path.
C13_ResolveByPathRoundTrips ==
    (/\ resolve.pc = "done"
     /\ resolve.op = "byPath"
     /\ IsPrefix(contactsPath, resolve.path)
     /\ Len(resolve.path) = Len(contactsPath) + 1
     /\ MatchesConvention(Base(resolve.path))) =>
        /\ resolve.result.err = "nil"
        /\ resolve.result.Name \o <<" ">> \o resolve.result.Number \o <<contactExt>>
             = Base(resolve.path)
        /\ resolve.result.HistoryPath = resolve.path

\* The path of a contact whose name holds a space itself was resolved.
C13_Witness ==
    /\ resolve.pc = "done"
    /\ resolve.op = "byPath"
    /\ Base(resolve.path) = <<"A", " ", " ", "+", "0", "1", contactExt>>
    /\ resolve.result.err = "nil"
    /\ resolve.result.Name = <<"A", " ">>
    /\ resolve.result.Number = <<"+", "0", "1">>

\* The number part of the file name, the text between its last space and the
\* extension, is not of the canonical format.
EmbedsInvalidNumber(file) ==
    \E k \in 1..(Len(file) - 1) :
        LET n == SubSeq(file, k + 1, Len(file) - 1) IN
        /\ file[k] = " "
        /\ file[Len(file)] = contactExt
        /\ \A i \in DOMAIN n : n[i] # " "
        /\ ~Canonical(n)

NoRecord(r) ==
    /\ r.Name = <<>>
    /\ r.Number = <<>>
    /\ r.HistoryPath = <<>>
    /\ r.AttachmentDir = <<>>

\* C14: for a number that is not of the canonical format getContact fails with
\* the error of the number format, whatever files there are, and parseContact of a
\* path whose file name has such a number for its number part fails with the error
\* of an invalid contact; neither returns a record.
C14_InvalidNumberRejected ==
    /\ (resolve.pc = "done" /\ resolve.op = "byNumber" /\ ~Canonical(resolve.number)) =>
          /\ resolve.result.err = "invalid contact number format"
          /\ NoRecord(resolve.result)
    /\ (/\ resolve.pc = "done"
        /\ resolve.op = "byPath"
        /\ EmbedsInvalidNumber(Base(resolve.path))) =>
          /\ resolve.result.err = "invalid contact"
          /\ NoRecord(resolve.result)

\* A number without its prefix was refused although a contact file ends in it.
C14_Witness ==
    /\ resolve.pc = "done"
    /\ resolve.op = "byNumber"
    /\ resolve.number = <<"0", "1">>
    /\ Join(contactsPath, <<<<"B", " ", "+", "0", "1", contactExt>>>>) \in DOMAIN resolve.files
    /\ resolve.result.err = "invalid contact number format"

\* The contact files of the directory whose number part is the number.
FilesOfNumber(files, number) ==
    {q \in DOMAIN files :
        \E name \in SeqUpTo(NameChars \cup {"B", "Unknown"}, MaxName + 1) :
            Base(q) = name \o <<" ">> \o number \o <<contactExt>>}

\* C18: getContact of a canonical number n, the contacts directory being there,
\* returns a record with the number n: the record Unknown n when no contact file
\* has the number n, and else the record of a contact file with the number n,
\* whatever other files there are.
C18_ResolveByNumberExact ==
    (/\ resolve.pc = "done"
     /\ resolve.op = "byNumber"
     /\ Canonical(resolve.number)
     /\ resolve.result.err # "mkdir") =>
        /\ resolve.result.err = "nil"
        /\ resolve.result.Number = resolve.number
        /\ IF FilesOfNumber(resolve.files, resolve.number) = {}
             THEN /\ resolve.result.Name = <<"Unknown">>
                  /\ resolve.result.HistoryPath = UnknownPath(resolve.number)
             ELSE resolve.result.HistoryPath
                      \in FilesOfNumber(resolve.files, resolve.number)

(***************************************************************************)
(* Properties of the end of a registration run                              *)
(***************************************************************************)
\* C19: in a registration run the process never ends with the volume unlocked:
\* whether it ends for a failed unlock, a registration already present, a failure
\* to save the number or to create the storage directory, or after a registration
\* that succeeded, the volume has been locked again before.
C19_RegistrationNeverExitsUnlocked ==
    (RegistrationRun /\ Exited) => volume = "locked"

(***************************************************************************)
(* Properties of the saved attachments                                      *)
(***************************************************************************)
\* The entry that refers to the attachment file saved[i].
EntryOf(i) ==
    <<Format(inbound.msg.timestamp), " ", "<", " ", "[">>
        \o relativePath(saved[i].path) \o <<"]", LF>>

\* C20: saveAttachment returns a name without an error, so that the handler turns
\* to the entry of the attachment, only when the whole content was written to the
\* new file, and every attachment entry in a history file refers to a file that
\* was written whole; a copy that failed is reported and leaves no entry.
C20_EntryOnlyForWholeAttachment ==
    /\ (inbound.pc \in {"open", "write"} /\ inbound.kind = "attachment") =>
          /\ saved # <<>>
          /\ saved[Len(saved)].complete
          /\ inbound.line = EntryOf(Len(saved))
    /\ \A w \in AttachmentEntries :
          \E i \in SavedWhole : appendLog[w].data = EntryOf(i)
    /\ reported >= Cardinality(DOMAIN saved \ SavedWhole)

InUpdateHistory ==
    \/ inbound.pc \in {"open", "write"}
    \/ \E s \in DOMAIN sender : sender[s].pc \in {"open", "write"}

\* C17: in every step of send requests, history requests and the inbound handler
\* each history file stays and keeps its content as a prefix of its new content,
\* and what is added is whole lines; the steps that resolve a contact (by path in a
\* request, by number for an inbound message, the Unknown record included) and the
\* history requests leave the files as they are, and a file comes into existence
\* only in updateHistory.
C17_HistoryOnlyGrows ==
    [][/\ \A q \in DOMAIN historyFiles :
             /\ q \in DOMAIN historyFiles'
             /\ IsPrefix(historyFiles[q], historyFiles'[q])
             /\ (historyFiles'[q] # historyFiles[q] =>
                    /\ historyFiles'[q][Len(historyFiles'[q])] = LF
                    /\ (historyFiles[q] = <<>>
                          \/ historyFiles[q][Len(historyFiles[q])] = LF))
       /\ (reader' # reader => historyFiles' = historyFiles)
       /\ (inbound.pc \in {"idle", "resolve"} /\ inbound' # inbound =>
               historyFiles' = historyFiles)
       /\ (\A s \in DOMAIN sender :
             (sender[s].pc = "idle" /\ sender'[s] # sender[s]) =>
                 historyFiles' = historyFiles)
       /\ (historyFiles' # historyFiles => InUpdateHistory)
       /\ (\A q \in DOMAIN historyFiles' \ DOMAIN historyFiles :
             historyFiles'[q] = <<>>)]_vars

(***************************************************************************)
(* Properties of the notifications                                          *)
(***************************************************************************)
\* The steps of messageHandler itself.
HandlerStep == InSpawnTimer \/ InReceive \/ InOpenHistory \/ InWriteHistory \/ InSaveAttachment

\* The notifications of the timers that have raised theirs and not yet removed it.
Pending ==
    {[id |-> timers[i].n, source |-> timers[i].source] :
        i \in {j \in DOMAIN timers : timers[j].pc = "sleeping"}}

\* C16: every message handed to messageHandler has a timer of its own, which
\* raises one notification, for the source of its message, and later removes it;
\* what is shown at any time is exactly the notifications raised and not yet
\* removed by their own timers, so that no timer removes the notification of another
\* message; the handler can take its next step whatever the timers are doing; and
\* every timer started raises its notification and every notification raised is
\* removed in the end.
C16_NotificationOfEachMessageExpires ==
    /\ [](/\ notifications = Pending
          /\ notifySeq = Cardinality({i \in DOMAIN timers : timers[i].pc # "spawned"})
          /\ \A i, j \in DOMAIN timers :
                (i # j /\ timers[i].pc # "spawned" /\ timers[j].pc # "spawned") =>
                    timers[i].n # timers[j].n
          /\ Len(timers) <= MaxMessages
          /\ (inbound.pc \in {"idle", "resolve", "open", "write", "attach"}
                => ENABLED HandlerStep))
    /\ \A i \in 1..MaxMessages :
          (i \in DOMAIN timers)
              ~> (/\ i \in DOMAIN timers
                  /\ timers[i].pc = "done"
                  /\ timers[i].n \in 1..notifySeq
                  /\ \A x \in notifications : x.id # timers[i].n)

\* Two notifications are shown, each with its timer asleep, while the handler is
\* about to write the entry of the second message.
C16_Witness ==
    /\ Len(timers) = 2
    /\ Cardinality(notifications) = 2
    /\ timers[1].pc = "sleeping"
    /\ timers[2].pc = "sleeping"
    /\ inbound.pc = "write"
====
